---- MODULE Spec2Model ----
(***************************************************************************)
(* Model of the search engine of apps/hyperlaunch/src/main.rs:             *)
(* fuzzy_score, search_files_by_name, search_file_contents and             *)
(* unified_search.                                                         *)
(*                                                                         *)
(* Strings are sequences of characters; a character is a token: the ASCII  *)
(* characters stand for themselves, "SIGMA" is U+03A3, "sigma" U+03C3,     *)
(* "fsigma" U+03C2 (final sigma), "eacute" U+00E9, "euro" U+20AC.          *)
(* Scores are f64 in the code; every score the code produces is a multiple *)
(* of 0.25, so the model keeps them as integers counted in quarters.       *)
(***************************************************************************)
EXTENDS Integers, Sequences, FiniteSets, TLC

VARIABLES
    pc,            \* position of the call being modelled
    hay, needle,   \* fuzzy_score: the two arguments
    hay_chars, needle_chars, \* fuzzy_score: the lowercased char vectors
    st,            \* fuzzy_score: the scan's locals i, j, hits, cont, best_cont
    matched,       \* history: haystack positions (0-based) the scan matched
    tier,          \* history: the tier that produced the score of fuzzy_score(hay, needle)
    score,         \* the value fuzzy_score(hay, needle) returned
    dup_tier, dup_score, \* history: tier and score of fuzzy_score(hay ++ hay, needle)
    query,         \* unified_search: its argument
    apps,          \* what collect_desktop_entries() returns
    pad,           \* the filesystem: the length of the run that starts the long line
    all_results,   \* unified_search: all_results; the list returned once pc = "done"
    walk_pos,      \* search_file_contents: entries of the walk already taken
    files_checked, \* search_file_contents: files_checked
    content_results, \* search_file_contents: results
    opened,        \* history: the paths File::open has opened
    candidates     \* history: the length of all_results before the final truncate

vars == <<pc, hay, needle, hay_chars, needle_chars, st, matched, tier, score,
          dup_tier, dup_score,
          query, apps, pad, all_results, walk_pos, files_checked, content_results, opened, candidates>>

(***************************************************************************)
(* Bounds of the model                                                     *)
(***************************************************************************)
MaxHayLen == 3
MaxNeedleLen == 2
MaxLongLen == 101
MaxQueryLen == 4
MaxApps == 70
MaxPad == 99

(***************************************************************************)
(* Characters                                                              *)
(***************************************************************************)
\* one quarter is the unit of a score: 1.0 is Unit quarters
Unit == 4

Max(a, b) == IF a >= b THEN a ELSE b

Punctuation == {"-", ".", "/", " ", "_", "%"}

\* char::is_alphanumeric
is_alphanumeric(c) == c \notin Punctuation

\* Unicode property Cased: the letters of the model
Cased(c) == c \notin Punctuation

\* Unicode property Case_Ignorable: of the model's characters, the full stop
Case_Ignorable(c) == c = "."

\* char::len_utf8
len_utf8(c) ==
    IF c \in {"SIGMA", "sigma", "fsigma", "eacute"} THEN 2
    ELSE IF c = "euro" THEN 3
    ELSE 1

\* char::is_whitespace
is_whitespace(c) == c = " "

\* conversions::to_lower for every character but U+03A3
to_lower(c) ==
    CASE c = "A" -> "a"
      [] c = "B" -> "b"
      [] c = "C" -> "c"
      [] c = "O" -> "o"
      [] OTHER -> c

MinOf(S) == CHOOSE x \in S : \A y \in S : x <= y
MaxOf(S) == CHOOSE x \in S : \A y \in S : x >= y

\* Iterator::rev
rev(s) == [k \in 1..Len(s) |-> s[Len(s) + 1 - k]]

\* skip_while(Case_Ignorable).next() is a Cased character
case_ignorable_then_cased(it) ==
    LET rest == {k \in 1..Len(it) : ~Case_Ignorable(it[k])}
    IN  rest # {} /\ Cased(it[MinOf(rest)])

\* str::to_lowercase, with its Final_Sigma rule for U+03A3
to_lowercase(s) ==
    [k \in 1..Len(s) |->
        IF s[k] = "SIGMA"
        THEN IF /\ case_ignorable_then_cased(rev(SubSeq(s, 1, k - 1)))
                /\ ~case_ignorable_then_cased(SubSeq(s, k + 1, Len(s)))
             THEN "fsigma"
             ELSE "sigma"
        ELSE to_lower(s[k])]

\* str::starts_with
starts_with(s, p) == Len(p) <= Len(s) /\ SubSeq(s, 1, Len(p)) = p

\* str::contains
contains(s, p) ==
    \E k \in 1..(Len(s) - Len(p) + 1) : SubSeq(s, k, k + Len(p) - 1) = p

\* str::split(|c| !c.is_alphanumeric()): the words between the separators,
\* in order, empty words included
split(s) ==
    LET seps == {k \in 1..Len(s) : ~is_alphanumeric(s[k])}
        n == Cardinality(seps)
        \* position of the w-th separator; 0 and Len(s) + 1 close the ends
        sep(w) == IF w = 0 THEN 0
                  ELSE IF w = n + 1 THEN Len(s) + 1
                  ELSE CHOOSE k \in seps : Cardinality({m \in seps : m < k}) = w - 1
    IN  [w \in 1..(n + 1) |-> SubSeq(s, sep(w - 1) + 1, sep(w) - 1)]

(***************************************************************************)
(* fuzzy_score                                                             *)
(***************************************************************************)
EXACT_SCORE == 1000
PREFIX_SCORE == 500
WORD_SCORE == 250
NO_MATCH == -1

ScanInit == [i |-> 0, j |-> 0, hits |-> 0, cont |-> 0, best_cont |-> 0]

\* the condition of the while loop
ScanGuard(s, hc, nc) == s.i < Len(hc) /\ s.j < Len(nc)

\* one iteration of the while loop (the vectors are 0-based in the code)
ScanStepNoReset(s, hc, nc) ==
    IF hc[s.i + 1] = nc[s.j + 1]
    THEN [i |-> s.i + 1, j |-> s.j + 1, hits |-> s.hits + 1,
          cont |-> s.cont + 1, best_cont |-> Max(s.best_cont, s.cont + 1)]
    ELSE [s EXCEPT !.i = s.i + 1]

ScanStep(s, hc, nc) ==
    IF hc[s.i + 1] = nc[s.j + 1]
    THEN [i |-> s.i + 1, j |-> s.j + 1, hits |-> s.hits + 1,
          cont |-> s.cont + 1, best_cont |-> Max(s.best_cont, s.cont + 1)]
    ELSE [s EXCEPT !.i = s.i + 1, !.cont = 0]

RECURSIVE ScanLoop(_, _, _)
ScanLoop(s, hc, nc) ==
    IF ScanGuard(s, hc, nc) THEN ScanLoop(ScanStep(s, hc, nc), hc, nc) ELSE s

ScanResultBigBonus(s, nc) ==
    IF s.j = Len(nc)
    THEN s.hits * Unit + s.best_cont * 15 * Unit
    ELSE NO_MATCH * Unit

\* the value returned after the loop: hits + 1.5 * best_cont, or -1
ScanResult(s, nc) ==
    IF s.j = Len(nc)
    THEN s.hits * Unit + (s.best_cont * 3 * Unit) \div 2
    ELSE NO_MATCH * Unit

\* the tier the three early returns select, "scan" when none does
TierOfPrefixFirst(h, n) ==
    IF starts_with(h, n) THEN "prefix"
    ELSE IF h = n THEN "exact"
    ELSE IF \E w \in 1..Len(split(h)) : starts_with(split(h)[w], n) THEN "word"
    ELSE "scan"

TierOfSwappedPrefix(h, n) ==
    IF h = n THEN "exact"
    ELSE IF starts_with(n, h) THEN "prefix"
    ELSE IF \E w \in 1..Len(split(h)) : starts_with(split(h)[w], n) THEN "word"
    ELSE "scan"

TierOf(h, n) ==
    IF h = n THEN "exact"
    ELSE IF starts_with(h, n) THEN "prefix"
    ELSE IF \E w \in 1..Len(split(h)) : starts_with(split(h)[w], n) THEN "word"
    ELSE "scan"

TierScore(t) ==
    CASE t = "exact" -> EXACT_SCORE * Unit
      [] t = "prefix" -> PREFIX_SCORE * Unit
      [] t = "word" -> WORD_SCORE * Unit

fuzzy_score(h0, n0) ==
    LET h == to_lowercase(h0)
        n == to_lowercase(n0)
        t == TierOf(h, n)
    IN  IF t # "scan" THEN TierScore(t)
        ELSE ScanResult(ScanLoop(ScanInit, h, n), n)

StringsUpTo(A, n) == UNION {[1..k -> A] : k \in 0..n}

Rep(c, n) == [k \in 1..n |-> c]

(***************************************************************************)
(* The program's constants                                                 *)
(***************************************************************************)
NAME_DEPTH == 4
MAX_ENTRIES == 5000
CONTENT_DEPTH == 3
MAX_FILES_CHECKED == 2000
MAX_FILE_SIZE == 500000
MAX_LINES == 500
CONTEXT_LEN == 100
CONTENT_SCORE == 10
APP_BOOST == 100
NAME_BOOST == 5
NAME_MAX_RESULTS == 20
MIN_CONTENT_QUERY == 4
CONTENT_MAX_RESULTS == 15
GLOBAL_CAP == 50

\* the names filter_entry prunes (lines 238-243 and 298-303)
DenyList == {
    <<"n", "o", "d", "e", "_", "m", "o", "d", "u", "l", "e", "s">>,
    <<".", "c", "a", "r", "g", "o">>,
    <<"t", "a", "r", "g", "e", "t">>,
    <<"b", "u", "i", "l", "d">>,
    <<"d", "i", "s", "t">>,
    <<".", "n", "p", "m">>,
    <<".", "c", "a", "c", "h", "e">>,
    <<"_", "_", "p", "y", "c", "a", "c", "h", "e", "_", "_">>,
    <<".", "v", "e", "n", "v">>,
    <<"v", "e", "n", "v">>,
    <<".", "g", "i", "t">>,
    <<".", "g", "r", "a", "d", "l", "e">>,
    <<".", "m", "2">>,
    <<".", "i", "v", "y", "2">>,
    <<"p", "k", "g">>,
    <<"v", "e", "n", "d", "o", "r">>,
    <<"d", "e", "p", "s">>,
    <<"P", "o", "d", "s">>,
    <<".", "t", "o", "x">>,
    <<".", "p", "y", "t", "e", "s", "t", "_", "c", "a", "c", "h", "e">>}

(***************************************************************************)
(* Strings, paths and the filesystem                                       *)
(***************************************************************************)
\* str::len: the length in bytes of the UTF-8 encoding
byte_len(s) ==
    Len(s) + Cardinality({k \in 1..Len(s) : len_utf8(s[k]) >= 2})
           + Cardinality({k \in 1..Len(s) : len_utf8(s[k]) >= 3})
           + Cardinality({k \in 1..Len(s) : len_utf8(s[k]) >= 4})

\* str::is_char_boundary
is_char_boundary(s, b) ==
    \E k \in 0..Len(s) : byte_len(SubSeq(s, 1, k)) = b

\* &s[..b], defined when b is a char boundary of s
byte_prefix(s, b) ==
    SubSeq(s, 1, CHOOSE k \in 0..Len(s) : byte_len(SubSeq(s, 1, k)) = b)

\* str::trim().is_empty()
trim_is_empty(s) == \A k \in 1..Len(s) : is_whitespace(s[k])

\* Path::to_string_lossy of an absolute path given by its components
RECURSIVE path_string(_)
path_string(p) ==
    IF p = <<>> THEN <<>> ELSE <<"/">> \o Head(p) \o path_string(Tail(p))

\* Path::file_name
file_name(p) == p[Len(p)]

\* one line read by BufReader::lines: Ok(text), or Err for bytes that are not UTF-8
Utf8(text) == [ok |-> TRUE, text |-> text]
NotUtf8 == [ok |-> FALSE, text |-> <<>>]

\* a line longer than CONTEXT_LEN bytes: a run of ASCII, one two-byte
\* character, then more ASCII
LongLine(p) == Rep("o", p) \o <<"eacute", "c", "o", "c", "o", "o", "o", "o">>

\* dirs::home_dir()
Home == <<<<"h">>>>

\* the tree under the home directory, in the order the walk meets it
Tree(p) == <<
    [path |-> <<<<"h">>>>,
     kind |-> "dir", size |-> 0, readable |-> TRUE, ignored |-> FALSE,
     lines |-> <<>>],
    [path |-> <<<<"h">>, <<".", "c", "o", "n", "f", "i", "g">>>>,
     kind |-> "dir", size |-> 0, readable |-> TRUE, ignored |-> FALSE,
     lines |-> <<>>],
    [path |-> <<<<"h">>, <<".", "c", "o", "n", "f", "i", "g">>, <<"c", "o", "c", "o">>>>,
     kind |-> "file", size |-> MAX_FILE_SIZE, readable |-> TRUE, ignored |-> FALSE,
     lines |-> <<Utf8(<<"x">>), Utf8(<<"C", "o", "c", "o", " ", "o", "c">>)>>],
    [path |-> <<<<"h">>, <<".", "c", "a", "c", "h", "e">>>>,
     kind |-> "dir", size |-> 0, readable |-> TRUE, ignored |-> FALSE,
     lines |-> <<>>],
    [path |-> <<<<"h">>, <<".", "c", "a", "c", "h", "e">>, <<"c", "o", "c", "o">>>>,
     kind |-> "file", size |-> 1200, readable |-> TRUE, ignored |-> FALSE,
     lines |-> <<Utf8(<<"c", "o", "c", "o">>)>>],
    [path |-> <<<<"h">>, <<"c", "o", "c", "o">>>>,
     kind |-> "file", size |-> 1200, readable |-> TRUE, ignored |-> FALSE,
     lines |-> <<NotUtf8, Utf8(<<>>), Utf8(<<"o", "-", "c", "o", "c", "o", " ", "eacute", "eacute">>)>>],
    [path |-> <<<<"h">>, <<"b", "i", "g">>>>,
     kind |-> "file", size |-> MAX_FILE_SIZE + 100000, readable |-> TRUE, ignored |-> FALSE,
     lines |-> <<Utf8(<<"c", "o", "c", "o", " ", "eacute", "eacute", " ", "o", "o", "o", "o">>)>>],
    [path |-> <<<<"h">>, <<"s", "e", "c", "r", "e", "t">>>>,
     kind |-> "file", size |-> 1200, readable |-> FALSE, ignored |-> FALSE,
     lines |-> <<Utf8(<<"c", "o", "c", "o">>)>>],
    [path |-> <<<<"h">>, <<"c", "o", ".", "l", "o", "g">>>>,
     kind |-> "file", size |-> 1200, readable |-> TRUE, ignored |-> TRUE,
     lines |-> <<Utf8(<<"c", "o", "c", "o">>)>>],
    [path |-> <<<<"h">>, <<"d", "o", "c", "s">>>>,
     kind |-> "dir", size |-> 0, readable |-> TRUE, ignored |-> FALSE,
     lines |-> <<>>],
    [path |-> <<<<"h">>, <<"d", "o", "c", "s">>, <<"a", "-", "c", "o">>>>,
     kind |-> "file", size |-> 1200, readable |-> TRUE, ignored |-> FALSE,
     lines |-> <<Utf8(<<"o">>), Utf8(LongLine(p))>>],
    [path |-> <<<<"h">>, <<"d", "o", "c", "s">>, <<"d", "e", "e", "p">>>>,
     kind |-> "dir", size |-> 0, readable |-> TRUE, ignored |-> FALSE,
     lines |-> <<>>],
    [path |-> <<<<"h">>, <<"d", "o", "c", "s">>, <<"d", "e", "e", "p">>, <<"e", "r">>>>,
     kind |-> "dir", size |-> 0, readable |-> TRUE, ignored |-> FALSE,
     lines |-> <<>>],
    [path |-> <<<<"h">>, <<"d", "o", "c", "s">>, <<"d", "e", "e", "p">>, <<"e", "r">>, <<"c", "o", "c", "o">>>>,
     kind |-> "file", size |-> 1200, readable |-> TRUE, ignored |-> FALSE,
     lines |-> <<Utf8(<<"c", "o", "c", "o">>)>>],
    [path |-> <<<<"h">>, <<"d", "o", "c", "s">>, <<"d", "e", "e", "p">>, <<"e", "r">>, <<"m", "o", "r", "e">>>>,
     kind |-> "dir", size |-> 0, readable |-> TRUE, ignored |-> FALSE,
     lines |-> <<>>],
    [path |-> <<<<"h">>, <<"d", "o", "c", "s">>, <<"d", "e", "e", "p">>, <<"e", "r">>, <<"m", "o", "r", "e">>, <<"c", "o">>>>,
     kind |-> "file", size |-> 1200, readable |-> TRUE, ignored |-> FALSE,
     lines |-> <<Utf8(<<"c", "o", "c", "o">>)>>]>>

\* the entries WalkBuilder yields: depth-limited, ignore rules honoured, and
\* nothing at or below a name of the deny-list (filter_entry)
Walk(p, max_depth) ==
    LET keep(e) ==
            /\ Len(e.path) - Len(Home) <= max_depth
            /\ ~e.ignored
            /\ \A k \in (Len(Home) + 1)..Len(e.path) : e.path[k] \notin DenyList
    IN  SelectSeq(Tree(p), keep)

\* collect_desktop_entries(): the application list, n entries
AppCatalogue == <<
    [name |-> <<"C", "o", "c", "o">>, exec |-> <<"c", "o", "c", "o">>, icon_data |-> <<>>],
    [name |-> <<"O", "c">>, exec |-> <<"x", "-", "c", "o">>, icon_data |-> <<>>],
    [name |-> <<"eacute", "c", "o">>, exec |-> <<"e", "c", "o", " ", "-", "-", "o">>, icon_data |-> <<>>],
    [name |-> <<"B", "a", "b">>, exec |-> <<"b", "a", "b">>, icon_data |-> <<>>]>>

AppList(n) == [k \in 1..n |-> AppCatalogue[((k - 1) % Len(AppCatalogue)) + 1]]

(***************************************************************************)
(* Sorting and truncation                                                  *)
(***************************************************************************)
TruncateNoop(s, n) == s

\* Vec::truncate
truncate(s, n) == IF Len(s) > n THEN SubSeq(s, 1, n) ELSE s

\* sort_by(|a, b| b.score.partial_cmp(&a.score).unwrap()): stable, descending
sort_by_score_desc(s) ==
    LET n == Len(s)
        rank == [k \in 1..n |->
                    Cardinality({m \in 1..n : s[m].score > s[k].score})
                  + Cardinality({m \in 1..(k - 1) : s[m].score = s[k].score}) + 1]
        at == [r \in 1..n |-> CHOOSE k \in 1..n : rank[k] = r]
    IN  [r \in 1..n |-> s[at[r]]]

(***************************************************************************)
(* search_files_by_name                                                    *)
(***************************************************************************)
NameResult(e, sc) ==
    [result_type |-> IF e.kind = "dir" THEN "directory" ELSE "file",
     name |-> file_name(e.path),
     path |-> path_string(e.path),
     icon_data |-> <<>>,
     context |-> <<>>,
     line_number |-> <<>>,
     score |-> sc]

\* the for loop of lines 250-278, from entry k on
RECURSIVE NameLoop(_, _, _, _, _, _)
NameLoop(entries, q, max_results, k, count, results) ==
    IF k > Len(entries) THEN results
    ELSE IF count + 1 > MAX_ENTRIES THEN results
    ELSE LET e == entries[k]
             sc == fuzzy_score(file_name(e.path), q)
         IN  IF sc >= 0
             THEN LET pushed == Append(results, NameResult(e, sc))
                  IN  IF Len(pushed) >= max_results * 2 THEN pushed
                      ELSE NameLoop(entries, q, max_results, k + 1, count + 1, pushed)
             ELSE NameLoop(entries, q, max_results, k + 1, count + 1, results)

search_files_by_name(p, q, max_results) ==
    truncate(sort_by_score_desc(
                NameLoop(Walk(p, NAME_DEPTH), q, max_results, 1, 0, <<>>)),
             max_results)

(***************************************************************************)
(* unified_search, up to the content search                                *)
(***************************************************************************)
AppResultNoBoost(app, sc) ==
    [result_type |-> "app",
     name |-> app.name,
     path |-> app.exec,
     icon_data |-> app.icon_data,
     context |-> <<app.exec>>,
     line_number |-> <<>>,
     score |-> sc]

\* lines 389-397
AppResult(app, sc) ==
    [result_type |-> "app",
     name |-> app.name,
     path |-> app.exec,
     icon_data |-> app.icon_data,
     context |-> <<app.exec>>,
     line_number |-> <<>>,
     score |-> sc * APP_BOOST]

\* lines 384-386
AppScore(app, q) == Max(fuzzy_score(app.name, q), fuzzy_score(app.exec, q))

\* the for loop of lines 383-399
AppResults(as, q) ==
    LET scored == [k \in 1..Len(as) |-> [app |-> as[k], sc |-> AppScore(as[k], q)]]
        hit(x) == x.sc >= 0
        hits == SelectSeq(scored, hit)
    IN  [k \in 1..Len(hits) |-> AppResult(hits[k].app, hits[k].sc)]

\* lines 405-411: the penalty, in tenths
PenaltyTenths(path) ==
    IF \/ contains(path, <<"/", ".", "c", "o", "n", "f", "i", "g", "/">>)
       \/ contains(path, <<"/", ".", "l", "o", "c", "a", "l", "/">>)
       \/ contains(path, <<"/", ".", "c", "a", "c", "h", "e", "/">>)
    THEN 1
    ELSE 10

\* line 413: result.score *= 5.0 * penalty
Penalised(r) ==
    [r EXCEPT !.score = (r.score * NAME_BOOST * PenaltyTenths(r.path)) \div 10]

\* the for loop of lines 403-415
NameResults(p, q) ==
    LET found == search_files_by_name(p, q, NAME_MAX_RESULTS)
    IN  [k \in 1..Len(found) |-> Penalised(found[k])]

(***************************************************************************)
(* search_file_contents, one entry of the walk                             *)
(***************************************************************************)
\* lines 335-337: the number of the first of the first MAX_LINES lines that
\* is UTF-8 and contains the lowercased query; 0 when there is none
FirstMatch(lines, query_lower) ==
    LET m == {k \in 1..Len(lines) :
                 /\ k <= MAX_LINES
                 /\ lines[k].ok
                 /\ contains(to_lowercase(lines[k].text), query_lower)}
    IN  IF m = {} THEN 0 ELSE MinOf(m)

\* line 339-343, when the slice does not panic
Context(line) ==
    IF byte_len(line) > CONTEXT_LEN
    THEN byte_prefix(line, CONTEXT_LEN) \o <<".", ".", ".">>
    ELSE line

\* line 340: &line[..100] panics unless byte 100 is a char boundary
SlicePanics(line) ==
    byte_len(line) > CONTEXT_LEN /\ ~is_char_boundary(line, CONTEXT_LEN)

ContentResult(e, line, k) ==
    [result_type |-> "content",
     name |-> file_name(e.path),
     path |-> path_string(e.path),
     icon_data |-> <<>>,
     context |-> <<Context(line)>>,
     line_number |-> <<k>>,
     score |-> CONTENT_SCORE * Unit]

(***************************************************************************)
(* unified_search, one call                                                *)
(***************************************************************************)
QueryAlphabet == {"c", "o", "eacute", " "}

\* the application list has no entry, a few, or more than the global cap
AppCounts == {0, 2, MaxApps}

\* the long line of docs/a-co: short, or cut at byte CONTEXT_LEN inside its
\* run of ASCII or at its two-byte character
PadChoices == {0} \cup ((MaxPad - 1)..MaxPad)

FuzzyIdle ==
    /\ hay = <<>>
    /\ needle = <<>>
    /\ hay_chars = <<>>
    /\ needle_chars = <<>>
    /\ st = ScanInit
    /\ matched = {}
    /\ tier = "none"
    /\ score = 0
    /\ dup_tier = "none"
    /\ dup_score = 0

SearchIdle ==
    /\ query = <<>>
    /\ apps = <<>>
    /\ pad = 0
    /\ all_results = <<>>
    /\ walk_pos = 0
    /\ files_checked = 0
    /\ content_results = <<>>
    /\ opened = {}
    /\ candidates = 0

Init ==
    /\ query \in StringsUpTo(QueryAlphabet, MaxQueryLen)
    /\ \E n \in AppCounts : apps = AppList(n)
    /\ pad \in PadChoices
    /\ pc = "start"
    /\ all_results = <<>>
    /\ walk_pos = 0
    /\ files_checked = 0
    /\ content_results = <<>>
    /\ opened = {}
    /\ candidates = 0
    /\ FuzzyIdle

fuzzy_vars == <<hay, needle, hay_chars, needle_chars, st, matched, tier, score,
                dup_tier, dup_score>>
input_vars == <<query, apps, pad>>
walker_vars == <<walk_pos, files_checked, content_results, opened>>
search_vars == <<query, apps, pad, all_results, walk_pos, files_checked, content_results, opened, candidates>>

\* lines 375-377: an empty or whitespace-only query returns an empty list
EmptyQuery ==
    /\ pc = "start"
    /\ trim_is_empty(query)
    /\ pc' = "done"
    /\ UNCHANGED <<input_vars, all_results, walker_vars, candidates, fuzzy_vars>>

\* lines 379-399: the applications
SearchApps ==
    /\ pc = "start"
    /\ ~trim_is_empty(query)
    /\ all_results' = AppResults(apps, query)
    /\ pc' = "names"
    /\ UNCHANGED <<input_vars, walker_vars, candidates, fuzzy_vars>>

\* lines 402-415: the names, boosted and penalised
SearchNames ==
    /\ pc = "names"
    /\ all_results' = all_results \o NameResults(pad, query)
    /\ pc' = "gate"
    /\ UNCHANGED <<input_vars, walker_vars, candidates, fuzzy_vars>>

\* line 418, condition true: search_file_contents is called
ContentCall ==
    /\ pc = "gate"
    /\ byte_len(query) >= MIN_CONTENT_QUERY
    /\ walk_pos' = 0
    /\ files_checked' = 0
    /\ content_results' = <<>>
    /\ pc' = "content"
    /\ UNCHANGED <<input_vars, all_results, opened, candidates, fuzzy_vars>>

\* line 418, condition false
ContentSkipped ==
    /\ pc = "gate"
    /\ byte_len(query) < MIN_CONTENT_QUERY
    /\ pc' = "sort"
    /\ UNCHANGED <<input_vars, all_results, walker_vars, candidates, fuzzy_vars>>

\* lines 310-366: one iteration of the walk of search_file_contents. The
\* metadata lookup may fail on any file; the open fails on an unreadable one.
ContentStep ==
    /\ pc = "content"
    /\ walk_pos < Len(Walk(pad, CONTENT_DEPTH))
    /\ LET e == Walk(pad, CONTENT_DEPTH)[walk_pos + 1]
           m == FirstMatch(e.lines, to_lowercase(query))
           pushed == IF m = 0 THEN content_results
                     ELSE Append(content_results, ContentResult(e, e.lines[m].text, m))
           continue == /\ walk_pos' = walk_pos + 1
                       /\ pc' = "content"
       IN  IF e.kind # "file"
           THEN /\ continue
                /\ UNCHANGED <<files_checked, content_results, opened>>
           ELSE /\ files_checked' = files_checked + 1
                /\ IF files_checked + 1 > MAX_FILES_CHECKED
                   THEN /\ pc' = "content_end"
                        /\ UNCHANGED <<walk_pos, content_results, opened>>
                   ELSE \E meta_ok \in BOOLEAN :
                        IF meta_ok /\ e.size > MAX_FILE_SIZE
                        THEN /\ continue
                             /\ UNCHANGED <<content_results, opened>>
                        ELSE IF ~e.readable
                        THEN /\ continue
                             /\ UNCHANGED <<content_results, opened>>
                        ELSE /\ opened' = opened \cup {e.path}
                             /\ IF m # 0 /\ SlicePanics(e.lines[m].text)
                                THEN /\ pc' = "panicked"
                                     /\ UNCHANGED <<walk_pos, content_results>>
                                ELSE /\ content_results' = pushed
                                     /\ IF Len(pushed) >= CONTENT_MAX_RESULTS
                                        THEN /\ pc' = "content_end"
                                             /\ UNCHANGED walk_pos
                                        ELSE continue
    /\ UNCHANGED <<input_vars, all_results, candidates, fuzzy_vars>>

\* the walk has no more entries
ContentExhausted ==
    /\ pc = "content"
    /\ walk_pos = Len(Walk(pad, CONTENT_DEPTH))
    /\ pc' = "content_end"
    /\ UNCHANGED <<search_vars, fuzzy_vars>>

\* lines 369-370 and 420: truncate, return, extend all_results
ContentReturn ==
    /\ pc = "content_end"
    /\ all_results' = all_results \o truncate(content_results, CONTENT_MAX_RESULTS)
    /\ pc' = "sort"
    /\ UNCHANGED <<input_vars, walker_vars, candidates, fuzzy_vars>>

\* lines 424-429: sort, truncate, return
SortAndReturn ==
    /\ pc = "sort"
    /\ candidates' = Len(all_results)
    /\ all_results' = truncate(sort_by_score_desc(all_results), GLOBAL_CAP)
    /\ pc' = "done"
    /\ UNCHANGED <<input_vars, walker_vars, fuzzy_vars>>

Next ==
    \/ EmptyQuery
    \/ SearchApps
    \/ SearchNames
    \/ ContentCall
    \/ ContentSkipped
    \/ ContentStep
    \/ ContentExhausted
    \/ ContentReturn
    \/ SortAndReturn

Spec == Init /\ [][Next]_vars

(***************************************************************************)
(* Claims about unified_search                                             *)
(***************************************************************************)
\* the length of a string in characters
char_len(s) == Len(s)

\* the components of a path string
path_components(s) ==
    LET seps == {k \in 1..Len(s) : s[k] = "/"}
        n == Cardinality(seps)
        sep(w) == IF w = n + 1 THEN Len(s) + 1
                  ELSE CHOOSE k \in seps : Cardinality({m \in seps : m < k}) = w - 1
    IN  {SubSeq(s, sep(w) + 1, sep(w + 1) - 1) : w \in 1..n}

IsNameResult(r) == r.result_type \in {"file", "directory"}

\* the fuzzy score a result had before unified_search rescaled it
BaseScore(r) ==
    IF r.result_type = "app"
    THEN AppScore([name |-> r.name, exec |-> r.path], query)
    ELSE fuzzy_score(r.name, query)

SizeOf(p) == (CHOOSE e \in {Tree(pad)[k] : k \in 1..Len(Tree(pad))} : e.path = p).size

ConfigName == <<".", "c", "o", "n", "f", "i", "g">>
LocalName == <<".", "l", "o", "c", "a", "l">>
CacheName == <<".", "c", "a", "c", "h", "e">>

\* C1: the list unified_search returns has at most 50 elements, however many
\* candidates were scored
C1_Cap == pc = "done" => Len(all_results) <= GLOBAL_CAP

C1_Witness ==
    /\ pc = "done"
    /\ candidates > GLOBAL_CAP
    /\ Len(all_results) = GLOBAL_CAP

\* C2: unified_search never aborts: no call ends in a panic
C2_NeverAborts == pc # "panicked"

\* C3: no file larger than 500,000 bytes is ever opened, whatever the metadata
\* lookup answered
C3_NoLargeFileOpened == \A p \in opened : SizeOf(p) <= MAX_FILE_SIZE

\* C4: for a query of fewer than 4 characters search_file_contents is not
\* called and no result of kind "content" is collected
C4_ShortQueryNoContent ==
    char_len(query) < MIN_CONTENT_QUERY =>
        /\ pc \notin {"content", "content_end", "panicked"}
        /\ \A k \in 1..Len(all_results) : all_results[k].result_type # "content"

\* C5: an app result outranks every name result of the same base fuzzy score:
\* its final score is strictly greater, and in the returned list it comes first
C5_AppsOutrank ==
    pc \in {"gate", "done"} =>
        LET n == Len(all_results)
            base == [k \in 1..n |-> BaseScore(all_results[k])]
        IN  \A a \in 1..n : all_results[a].result_type = "app" =>
                \A f \in 1..n :
                    (IsNameResult(all_results[f]) /\ base[a] = base[f]) =>
                        /\ all_results[a].score > all_results[f].score
                        /\ pc = "done" => a < f

C5_Witness ==
    /\ pc = "done"
    /\ \E a, f \in 1..Len(all_results) :
          /\ all_results[a].result_type = "app"
          /\ IsNameResult(all_results[f])
          /\ BaseScore(all_results[a]) = BaseScore(all_results[f])
          /\ PenaltyTenths(all_results[f].path) = 10
          /\ a < f

\* C6: of two name results with the same base fuzzy score, one whose path has
\* a component .config (at any position, the last included) scores strictly
\* lower than one whose path has no component .config, .local or .cache
C6_ConfigScoresLower ==
    pc = "gate" =>
        \A a, b \in 1..Len(all_results) :
            (/\ IsNameResult(all_results[a])
             /\ IsNameResult(all_results[b])
             /\ ConfigName \in path_components(all_results[a].path)
             /\ path_components(all_results[b].path)
                   \cap {ConfigName, LocalName, CacheName} = {}
             /\ BaseScore(all_results[a]) = BaseScore(all_results[b]))
            => all_results[a].score < all_results[b].score


(***************************************************************************)
(* fuzzy_score, one call, the scan taken one iteration at a time           *)
(***************************************************************************)
HayAlphabet == {"a", "b", "A", "-", "SIGMA", "fsigma"}
NeedleAlphabet == {"a", "b", "A", "-", "SIGMA", "fsigma"}

\* long arguments: runs of one letter, after a different first letter or
\* around a separator
LongLens == (MaxLongLen - 3)..MaxLongLen

ShortArgs ==
    /\ hay \in StringsUpTo(HayAlphabet, MaxHayLen)
    /\ needle \in StringsUpTo(NeedleAlphabet, MaxNeedleLen)

LongArgs ==
    \E k \in LongLens, m \in LongLens :
        /\ \/ hay = <<"b">> \o Rep("a", k)
           \/ \E y \in 1..2 : hay = Rep("a", k) \o <<"-">> \o Rep("a", y)
        /\ needle = Rep("A", m)

FuzzyStart ==
    /\ SearchIdle
    /\ pc = "fz_start"
    /\ hay_chars = <<>>
    /\ needle_chars = <<>>
    /\ st = ScanInit
    /\ matched = {}
    /\ tier = "none"
    /\ score = 0
    /\ dup_tier = "none"
    /\ dup_score = 0

\* lines 180-205 of the first call, fuzzy_score(hay, needle): lowercase both,
\* try the three early returns, initialise the scan
FuzzyTiers ==
    /\ pc = "fz_start"
    /\ LET h == to_lowercase(hay)
           n == to_lowercase(needle)
           t == TierOf(h, n)
       IN  /\ hay_chars' = h
           /\ needle_chars' = n
           /\ tier' = t
           /\ IF t # "scan"
              THEN score' = TierScore(t) /\ pc' = "fz_done"
              ELSE score' = score /\ pc' = "fz_scan"
    /\ st' = ScanInit
    /\ matched' = {}
    /\ UNCHANGED <<hay, needle, dup_tier, dup_score, search_vars>>

\* the same lines of the second call, fuzzy_score(hay ++ hay, needle)
FuzzyDup ==
    /\ pc = "fz_done"
    /\ LET h == to_lowercase(hay \o hay)
           n == to_lowercase(needle)
           t == TierOf(h, n)
       IN  /\ hay_chars' = h
           /\ needle_chars' = n
           /\ dup_tier' = t
           /\ IF t # "scan"
              THEN dup_score' = TierScore(t) /\ pc' = "fz_dup"
              ELSE dup_score' = dup_score /\ pc' = "fz_scan2"
    /\ st' = ScanInit
    /\ matched' = {}
    /\ UNCHANGED <<hay, needle, tier, score, search_vars>>

\* lines 207-217: one iteration of the loop, in either call
FuzzyScanStep ==
    /\ pc \in {"fz_scan", "fz_scan2"}
    /\ ScanGuard(st, hay_chars, needle_chars)
    /\ st' = ScanStep(st, hay_chars, needle_chars)
    /\ matched' = IF hay_chars[st.i + 1] = needle_chars[st.j + 1]
                  THEN matched \cup {st.i}
                  ELSE matched
    /\ UNCHANGED <<pc, hay, needle, hay_chars, needle_chars, tier, score,
                   dup_tier, dup_score, search_vars>>

\* lines 219-223: the loop has ended, the call returns
FuzzyScanEnd ==
    /\ pc \in {"fz_scan", "fz_scan2"}
    /\ ~ScanGuard(st, hay_chars, needle_chars)
    /\ IF pc = "fz_scan"
       THEN /\ score' = ScanResult(st, needle_chars)
            /\ pc' = "fz_done"
            /\ UNCHANGED dup_score
       ELSE /\ dup_score' = ScanResult(st, needle_chars)
            /\ pc' = "fz_dup"
            /\ UNCHANGED score
    /\ UNCHANGED <<hay, needle, hay_chars, needle_chars, st, matched, tier,
                   dup_tier, search_vars>>

FuzzyInit == ShortArgs /\ FuzzyStart

FuzzyNext == FuzzyTiers \/ FuzzyScanStep \/ FuzzyScanEnd \/ FuzzyDup

\* calls of fuzzy_score on short arguments, each followed by the call on the
\* doubled haystack
SpecFuzzy == FuzzyInit /\ [][FuzzyNext]_vars

FuzzyLongInit == (ShortArgs \/ LongArgs) /\ FuzzyStart

\* the same calls, on short and on long arguments
SpecFuzzyLong == FuzzyLongInit /\ [][FuzzyNext]_vars

\* the call taken step by step returns what the operator fuzzy_score computes
StepwiseAgrees ==
    /\ pc \in {"fz_done", "fz_scan2", "fz_dup"} => score = fuzzy_score(hay, needle)
    /\ pc = "fz_dup" => dup_score = fuzzy_score(hay \o hay, needle)

(***************************************************************************)
(* Reference definitions for the claims about fuzzy_score                  *)
(***************************************************************************)
\* a call has returned; its tier and score
Returned == pc \in {"fz_done", "fz_dup"}
LastTier == IF pc = "fz_dup" THEN dup_tier ELSE tier
LastScore == IF pc = "fz_dup" THEN dup_score ELSE score

\* n is an ordered subsequence of h: some strictly increasing choice of
\* positions of h spells n
RECURSIVE IsSubsequence(_, _)
IsSubsequence(n, h) ==
    /\ Len(n) <= Len(h)
    /\ \/ n = <<>>
       \/ /\ Head(h) = Head(n)
          /\ IsSubsequence(Tail(n), Tail(h))
       \/ IsSubsequence(n, Tail(h))

\* the longest streak of consecutive positions in a set of positions
LongestRun(S) ==
    IF S = {} THEN 0
    ELSE MaxOf({b - a + 1 : <<a, b>> \in
                 {p \in S \X S : p[1] <= p[2] /\ \A k \in p[1]..p[2] : k \in S}})

\* C7 as stated: appending a copy of the haystack never lowers a non-negative
\* score, in any of the four tiers
C7_Original ==
    (pc = "fz_dup" /\ score >= 0) => dup_score >= score

\* lowercasing the doubled haystack gives the lowercased haystack twice
LowercaseDoubles == hay_chars = to_lowercase(hay) \o to_lowercase(hay)

\* C7, amended: appending a copy of the haystack never lowers a non-negative
\* score in the prefix and word-boundary tiers, nor in the subsequence tier
\* while the score is at most 250; in the exact tier a non-empty haystack
\* falls from 1000 to 500. Lowercasing the doubled haystack is taken to give
\* the lowercased haystack twice (a capital sigma can break this).
C7_Monotone ==
    (/\ pc = "fz_dup"
     /\ score >= 0
     /\ ~(tier = "exact" /\ hay # <<>>)
     /\ ~(tier = "scan" /\ score > WORD_SCORE * Unit)
     /\ LowercaseDoubles)
    => dup_score >= score

\* C7, the amended claim without its condition on lowercasing: refuted by a
\* capital sigma that is final in the haystack and not in the doubled one
C7_MonotoneAnyCase ==
    (/\ pc = "fz_dup"
     /\ score >= 0
     /\ ~(tier = "exact" /\ hay # <<>>)
     /\ ~(tier = "scan" /\ score > WORD_SCORE * Unit))
    => dup_score >= score

\* C7, the amended claim without its bound on the subsequence score: refuted
\* by a needle of 101 letters that the doubled haystack matches at a word
\* boundary (250) and the haystack as a subsequence (251)
C7_MonotoneAnyLength ==
    (/\ pc = "fz_dup"
     /\ score >= 0
     /\ ~(tier = "exact" /\ hay # <<>>)
     /\ LowercaseDoubles)
    => dup_score >= score

C7_Witness ==
    /\ pc = "fz_dup"
    /\ tier = "scan"
    /\ score >= 0
    /\ LowercaseDoubles
    /\ dup_tier = "word"
    /\ dup_score > score

\* C8 as stated: an empty needle scores 0 on every non-empty haystack, and is
\* never negative
C8_Original ==
    (Returned /\ needle = <<>>) =>
        (LastScore >= 0 /\ (hay_chars # <<>> => LastScore = 0))

\* C8, amended: an empty needle never reaches the scan; it scores 500 (prefix
\* tier) on every non-empty haystack and 1000 (exact tier) on the empty one,
\* and is never negative
C8_EmptyNeedle ==
    (Returned /\ needle = <<>>) =>
        /\ LastScore >= 0
        /\ st = ScanInit
        /\ hay_chars # <<>> => (LastTier = "prefix" /\ LastScore = PREFIX_SCORE * Unit)
        /\ hay_chars = <<>> => (LastTier = "exact" /\ LastScore = EXACT_SCORE * Unit)

C8_Witness ==
    /\ pc = "fz_done"
    /\ needle = <<>>
    /\ hay # <<>>
    /\ tier = "prefix"
    /\ score = PREFIX_SCORE * Unit

\* C9 (state part): when no early return applies, the scan returns -1 exactly
\* when the needle is not an ordered subsequence of the haystack, and otherwise
\* hits + 1.5 * the longest streak of consecutive matched positions, with hits
\* the length of the needle; it stops within length(h) iterations
C9_ScanResult ==
    (Returned /\ LastTier = "scan") =>
        /\ needle # <<>>
        /\ st.i <= Len(hay_chars)
        /\ (LastScore = NO_MATCH * Unit) <=> ~IsSubsequence(needle_chars, hay_chars)
        /\ IsSubsequence(needle_chars, hay_chars) =>
              /\ st.hits = Len(needle_chars)
              /\ st.hits = Len(needle)
              /\ st.best_cont = LongestRun(matched)
              /\ 2 * LastScore = Unit * (2 * st.hits + 3 * LongestRun(matched))

\* C9 (step part): the scan never backtracks: every iteration advances the
\* haystack position by exactly one and never moves the needle position back
C9_NoBacktrack ==
    (pc \in {"fz_scan", "fz_scan2"} /\ pc' = pc) =>
        /\ st'.i = st.i + 1
        /\ st'.j \in {st.j, st.j + 1}
        /\ st'.i <= Len(hay_chars)

C10_Original ==
    /\ (Returned /\ LastTier = "scan") => LastScore < WORD_SCORE * Unit
    /\ WORD_SCORE < PREFIX_SCORE
    /\ PREFIX_SCORE < EXACT_SCORE

\* C10, amended: for a needle whose lowercased form has fewer than 100
\* characters, every score of the subsequence tier is below the word-boundary
\* score 250, which is below the prefix score 500, which is below the exact
\* score 1000
C10_TiersDominate ==
    /\ (Returned /\ LastTier = "scan" /\ 5 * Len(needle_chars) < 2 * WORD_SCORE)
          => LastScore < WORD_SCORE * Unit
    /\ WORD_SCORE < PREFIX_SCORE
    /\ PREFIX_SCORE < EXACT_SCORE

C10_Witness ==
    /\ pc = "fz_done"
    /\ tier = "scan"
    /\ 5 * Len(needle_chars) < 2 * WORD_SCORE
    /\ st.best_cont = Len(needle_chars)
    /\ 5 * (Len(needle_chars) + 1) >= 2 * WORD_SCORE

====
